---- MODULE Spec2Model ----
(***************************************************************************)
(* A model of the scanpipe core of ScanCode.io: the Project workspace      *)
(* (scanpipe/models.py, Project), the Run table and the dispatch of Runs   *)
(* (Project.add_pipeline, Project.get_next_run, Run), the inventory models *)
(* (CodebaseResource, DiscoveredPackage, ProjectError and the             *)
(* SaveProjectErrorMixin) and the inventory pipeline                       *)
(* (scanpipe/pipelines/scan_inventory.py).                                 *)
(*                                                                         *)
(* Optional values (Python's None) are sequences of length at most one:    *)
(* None is <<>> and a present value x is <<x>>.  Text is a sequence of     *)
(* one-character strings.                                                  *)
(***************************************************************************)
EXTENDS Integers, Sequences, FiniteSets, TLC

VARIABLES
    projects,   \* the Project table: a set of rows
    fs,         \* the directories under WORKSPACE_LOCATION/projects/
    runs,       \* the Run table: a sequence of rows in the order of their creation
    engine,     \* per Run, the pipeline engine's state on the worker
    queue,      \* the tasks waiting in the "default" queue of the task broker
    clock,      \* the time now
    trace,      \* per Run, every step execution so far (history)
    serial,     \* every enqueue so far found its project with no Run queued or active (history)
    resources,  \* the CodebaseResource table: a set of rows
    packages,   \* the DiscoveredPackage table: a set of rows
    links,      \* the resource/package relation: pairs of primary keys
    errors,     \* the ProjectError table: rows in the order of their creation
    obj,        \* a CodebaseResource instance in memory
    output,     \* the captured task output of a Run, as the pieces written to it
    last        \* the last operation performed and what its caller observed

wsVars == <<projects, fs>>

runVars == <<runs, engine, queue, clock, trace, serial>>

storeVars == <<resources, packages, links, errors, obj>>

restVars == <<storeVars, output>>

vars == <<projects, fs, runs, engine, queue, clock, trace, serial,
          resources, packages, links, errors, obj, output, last>>

None == <<>>

Some(x) == <<x>>

(***************************************************************************)
(* Bounds of the model.                                                    *)
(***************************************************************************)
MaxDirs == 3

Names == {"acme", "beta"}

ShortIds == {"1a", "2b"}

RestIds == {"x", "y"}

Files == {"f1"}

\* A uuid is its first eight characters and the rest.
UUIDs == ShortIds \X RestIds

(***************************************************************************)
(* UUIDPKModel and the work directory.                                     *)
(***************************************************************************)
short_uuid(uuid) == uuid[1]

\* The path below WORKSPACE_LOCATION/projects/: "<name>-<short_uuid>".
get_project_work_directory(name, uuid) == <<name, short_uuid(uuid)>>

WORK_DIRECTORIES == <<"input", "output", "codebase", "tmp">>

SubDirs == {WORK_DIRECTORIES[i] : i \in DOMAIN WORK_DIRECTORIES}

EmptyDir == [exists |-> TRUE, files |-> {}]

NoDir == [exists |-> FALSE, files |-> {}]

\* Path(work_directory, sub).mkdir(parents=True, exist_ok=True)
mkdir_parents(f, d, sub) ==
    LET base == IF d \in DOMAIN f THEN f[d] ELSE [s \in SubDirs |-> NoDir]
        made == IF base[sub].exists THEN base ELSE [base EXCEPT ![sub] = EmptyDir]
    IN [x \in DOMAIN f \cup {d} |-> IF x = d THEN made ELSE f[x]]

RECURSIVE setup_from(_, _, _)
setup_from(f, d, i) ==
    IF i > Len(WORK_DIRECTORIES) THEN f
    ELSE setup_from(mkdir_parents(f, d, WORK_DIRECTORIES[i]), d, i + 1)

setup_work_directory(f, d) == setup_from(f, d, 1)

\* shutil.rmtree(path, ignore_errors=True): the tree goes; a missing one is ignored.
rmtree(f, d, sub) ==
    IF d \in DOMAIN f THEN [f EXCEPT ![d][sub] = NoDir] ELSE f

\* Path.mkdir(exist_ok=True), without parents: the work directory must exist.
mkdir_raises(f, d) == d \notin DOMAIN f

mkdir(f, d, sub) ==
    IF d \in DOMAIN f /\ ~f[d][sub].exists THEN [f EXCEPT ![d][sub] = EmptyDir] ELSE f

\* A clear that forgets to recreate the directory.
clear_tmp_directory_no_mkdir(f, d) == rmtree(f, d, "tmp")

\* A clear that only makes sure the directory exists.
clear_tmp_directory_no_rmtree(f, d) == mkdir(f, d, "tmp")

clear_tmp_directory(f, d) == mkdir(rmtree(f, d, "tmp"), d, "tmp")

ProjectNames == {p.name : p \in projects}

ProjectUuids == {p.uuid : p \in projects}

\* The unique constraints of the Project table: the name and the primary key.
project_insert_fails(name, uuid) == name \in ProjectNames \/ uuid \in ProjectUuids

TmpState(f, d) ==
    IF d \notin DOMAIN f \/ ~f[d]["tmp"].exists THEN "absent"
    ELSE IF f[d]["tmp"].files = {} THEN "empty" ELSE "nonempty"

(***************************************************************************)
(* Operations of the workspace.                                            *)
(***************************************************************************)
RunsIdle ==
    /\ runs = <<>>
    /\ engine = <<>>
    /\ queue = {}
    /\ clock = 0
    /\ trace = <<>>
    /\ serial = TRUE

StoreEmpty ==
    /\ resources = {}
    /\ packages = {}
    /\ links = {}
    /\ errors = <<>>
    /\ obj = None

Init ==
    /\ projects = {}
    /\ fs = <<>>
    /\ RunsIdle
    /\ StoreEmpty
    /\ output = <<>>
    /\ last = [op |-> "init"]

\* Project(name=name).save() on a new instance: the work directory is set up
\* before the row is written, and the write fails on a name already taken.
CreateProject(name, uuid) ==
    LET d == get_project_work_directory(name, uuid)
        failed == project_insert_fails(name, uuid)
    IN /\ Cardinality(DOMAIN fs \cup {d}) <= MaxDirs
       /\ fs' = setup_work_directory(fs, d)
       /\ projects' = IF failed THEN projects
                      ELSE projects \cup {[uuid |-> uuid, name |-> name, work_directory |-> d]}
       /\ UNCHANGED <<restVars, runVars>>
       /\ last' = [op |-> "create_project", name |-> name, dir |-> d,
                   raised |-> failed, duplicate |-> name \in ProjectNames]

\* Project.add_input_file: the file is written below input/.
AddInputFile(p, filename) ==
    LET d == p.work_directory
    IN /\ fs[d]["input"].exists
       /\ fs' = [fs EXCEPT ![d]["input"].files = @ \cup {filename}]
       /\ UNCHANGED <<restVars, projects, runVars>>
       /\ last' = [op |-> "add_input_file", dir |-> d, raised |-> FALSE]

\* A pipeline step leaves a file in tmp/.
StepWritesTmp(p, filename) ==
    LET d == p.work_directory
    IN /\ fs[d]["tmp"].exists
       /\ fs' = [fs EXCEPT ![d]["tmp"].files = @ \cup {filename}]
       /\ UNCHANGED <<restVars, projects, runVars>>
       /\ last' = [op |-> "write_tmp", dir |-> d, raised |-> FALSE]

\* tmp/ is removed from outside (an operator, a step that cleans up after itself).
TmpRemoved(p) ==
    LET d == p.work_directory
    IN /\ fs[d]["tmp"].exists
       /\ fs' = rmtree(fs, d, "tmp")
       /\ UNCHANGED <<restVars, projects, runVars>>
       /\ last' = [op |-> "remove_tmp", dir |-> d, raised |-> FALSE]

\* Project.clear_tmp_directory.  before: tmp/ as the call found it; prev: tmp/ as the
\* call before found it, when that call was a clear of the same directory too.
ClearTmpDirectory(p) ==
    LET d == p.work_directory
    IN /\ fs' = clear_tmp_directory(fs, d)
       /\ UNCHANGED <<restVars, projects, runVars>>
       /\ last' = [op |-> "clear_tmp_directory", dir |-> d,
                   raised |-> mkdir_raises(rmtree(fs, d, "tmp"), d),
                   before |-> TmpState(fs, d),
                   prev |-> IF last.op = "clear_tmp_directory" /\ last.dir = d
                            THEN last.before ELSE "none"]

Next ==
    \/ \E name \in Names, uuid \in UUIDs : CreateProject(name, uuid)
    \/ \E p \in projects, f \in Files : AddInputFile(p, f)
    \/ \E p \in projects, f \in Files : StepWritesTmp(p, f)
    \/ \E p \in projects : TmpRemoved(p)
    \/ \E p \in projects : ClearTmpDirectory(p)

Spec == Init /\ [][Next]_vars

(***************************************************************************)
(* C2.  createProject called again with a name already taken fails with    *)
(* the duplicate-name error, leaves exactly one Project of that name and   *)
(* leaves the set of directories under projects/ as it was.                *)
(***************************************************************************)
C2_DuplicateCreateLeavesNoDirectory ==
    [][(last'.op = "create_project" /\ last'.duplicate)
        => /\ last'.raised
           /\ Cardinality({p \in projects' : p.name = last'.name}) = 1
           /\ DOMAIN fs' = DOMAIN fs]_vars

(***************************************************************************)
(* C10.  clear_tmp_directory, from any state of tmp/ (non-empty, empty or  *)
(* absent), reports no error and leaves tmp/ existing and empty, also when *)
(* it is the second call in a row; input/, output/, codebase/ and every    *)
(* other project's directory are as they were.                             *)
(***************************************************************************)
C10_ClearTmpIdempotent ==
    [][last'.op = "clear_tmp_directory"
        => /\ ~last'.raised
           /\ TmpState(fs', last'.dir) = "empty"
           /\ DOMAIN fs' = DOMAIN fs
           /\ \A d \in DOMAIN fs : \A s \in SubDirs :
                  (d # last'.dir \/ s # "tmp") => fs'[d][s] = fs[d][s]]_vars

\* The second of two calls in a row, the first of which found tmp/ absent.
C10_Witness ==
    /\ last.op = "clear_tmp_directory"
    /\ last.prev = "absent"
    /\ last.before = "empty"
    /\ TmpState(fs, last.dir) = "empty"
    /\ fs[last.dir]["input"].files # {}

(***************************************************************************)
(* Runs: Project.add_pipeline, Project.get_next_run, Run and the inventory *)
(* pipeline.  The worker side (scanpipe/tasks.py, the Pipeline base class) *)
(* follows sections 4.4, 4.5 and 5 of the specification.                   *)
(***************************************************************************)
\* Bounds of the dispatch specifications: many Runs, few step executions.
MaxRuns == 2

MaxClock == 1

MaxDispatchSteps == 1

MaxDispatchResumes == 1

\* Bounds of the pipeline specification: few Runs, executed and resumed to their end.
MaxPipelineRuns == 1

MaxSteps == 4

MaxResumes == 1

DispatchBounds ==
    [runs |-> MaxRuns, steps |-> MaxDispatchSteps, resumes |-> MaxDispatchResumes]

PipelineBounds ==
    [runs |-> MaxPipelineRuns, steps |-> MaxSteps, resumes |-> MaxResumes]

Pipelines == {"scanpipe/pipelines/scan_inventory.py"}

\* The steps of CollectInventoryFromScanCodeScan in the order of their declaration.
DeclaredSteps == <<"start", "build_inventory_from_scan", "end">>

\* The step a step hands over to with self.next(...); `end` hands over to none.
next_step_skips_build(step) ==
    IF step = "start" THEN Some("end") ELSE None

next_step(step) ==
    CASE step = "start" -> Some("build_inventory_from_scan")
      [] step = "build_inventory_from_scan" -> Some("end")
      [] OTHER -> None

\* The documentation string of a pipeline.
get_pipeline_doc(pipeline) == "A pipeline to load a files and packages inventory"

\* A Run that is born claimed.
new_run_claimed(project_pk, pipeline, now) ==
    [project |-> project_pk, pipeline |-> pipeline,
     description |-> get_pipeline_doc(pipeline), created_date |-> now,
     task_id |-> Some(<<0, 0>>), task_end_date |-> None,
     task_exitcode |-> None, task_output |-> <<>>]

\* Run.objects.create(project=self, pipeline=pipeline, description=description):
\* the task fields keep their defaults.
new_run(project_pk, pipeline, now) ==
    [project |-> project_pk, pipeline |-> pipeline,
     description |-> get_pipeline_doc(pipeline), created_date |-> now,
     task_id |-> None, task_end_date |-> None,
     task_exitcode |-> None, task_output |-> <<>>]

\* The earliest Run of the project, claimed or not.
get_next_run_any(rs, project_pk) ==
    LET cand == {i \in DOMAIN rs : rs[i].project = project_pk}
    IN IF cand = {} THEN {None}
       ELSE {Some(i) : i \in {c \in cand :
                 \A o \in cand : rs[c].created_date <= rs[o].created_date}}

\* self.runs.filter(task_id__isnull=True).earliest("created_date"), None when there
\* is none: the set of the results the query may give (Runs of one creation time
\* come in either order).
get_next_run(rs, project_pk) ==
    LET cand == {i \in DOMAIN rs : rs[i].project = project_pk /\ rs[i].task_id = None}
    IN IF cand = {} THEN {None}
       ELSE {Some(i) : i \in {c \in cand :
                 \A o \in cand : rs[c].created_date <= rs[o].created_date}}

\* tasks.<task>.apply_async(args=[self.pk], queue="default")
run_pipeline_task_async(q, r) == q \cup {[task |-> "run_pipeline_task", run |-> r]}

resume_pipeline_task_async(q, r) == q \cup {[task |-> "resume_pipeline_task", run |-> r]}

task_succeeded_any_exitcode(run) == run.task_exitcode # None

task_succeeded(run) == run.task_exitcode = Some(0)

\* The states of section 4.4.
RunState(run) ==
    IF run.task_id = None THEN "UNCLAIMED"
    ELSE IF run.task_end_date = None THEN "RUNNING"
    ELSE IF task_succeeded(run) THEN "SUCCEEDED" ELSE "FAILED"

Queued(r) == \E m \in queue : m.run = r

\* The Runs of a project that are claimed and not ended.
ActiveRuns(pk) ==
    {r \in DOMAIN runs : /\ runs[r].project = pk
                         /\ runs[r].task_id # None
                         /\ runs[r].task_end_date = None}

\* The project has a Run waiting in the queue or claimed and not ended.
ProjectBusy(pk) ==
    \/ ActiveRuns(pk) # {}
    \/ \E r \in DOMAIN runs : runs[r].project = pk /\ Queued(r)

ProjectByPk(pk) == CHOOSE p \in projects : p.uuid = pk

RunDir(r) == ProjectByPk(runs[r].project).work_directory

\* The step the engine executes next: the first one not recorded as completed.
CurrentStep(r) ==
    IF engine[r].completed = <<>> THEN Some("start")
    ELSE next_step(engine[r].completed[Len(engine[r].completed)])

RECURSIVE SumAttempts(_)
SumAttempts(i) == IF i = 0 THEN 0 ELSE SumAttempts(i - 1) + engine[i].attempts

\* The resumes so far: the executions beyond each Run's first.
Resumes ==
    SumAttempts(Len(engine)) - Cardinality({r \in DOMAIN engine : engine[r].attempts > 0})
        + Cardinality({m \in queue : m.task = "resume_pipeline_task"})

RECURSIVE SumSteps(_)
SumSteps(i) == IF i = 0 THEN 0 ELSE SumSteps(i - 1) + Len(trace[i])

\* The step executions so far.
StepsSoFar == SumSteps(Len(trace))

IdleEngine == [pc |-> "idle", completed |-> <<>>, attempts |-> 0, exit |-> None]

\* Two projects exist, each with its work directory; no Run yet.
InitRuns ==
    /\ projects = {[uuid |-> <<"1a", "x">>, name |-> "acme", work_directory |-> <<"acme", "1a">>],
                   [uuid |-> <<"2b", "x">>, name |-> "beta", work_directory |-> <<"beta", "2b">>]}
    /\ fs = setup_work_directory(setup_work_directory(<<>>, <<"acme", "1a">>), <<"beta", "2b">>)
    /\ RunsIdle
    /\ StoreEmpty
    /\ output = <<>>
    /\ last = [op |-> "init"]

\* Time passes; once the last Run of the model is created the time no longer matters.
Tick(B) ==
    /\ clock < MaxClock
    /\ Len(runs) < B.runs
    /\ clock' = clock + 1
    /\ UNCHANGED <<restVars, wsVars, runs, engine, queue, trace, serial>>
    /\ last' = [op |-> "other"]

\* Project.add_pipeline
AddPipeline(p, pipeline, B) ==
    /\ Len(runs) < B.runs
    /\ runs' = Append(runs, new_run(p.uuid, pipeline, clock))
    /\ engine' = Append(engine, IdleEngine)
    /\ trace' = Append(trace, <<>>)
    /\ UNCHANGED <<restVars, wsVars, queue, clock, serial>>
    /\ last' = [op |-> "other"]

\* Project.get_next_run
GetNextRun(p) ==
    /\ \E res \in get_next_run(runs, p.uuid) :
           last' = [op |-> "get_next_run", project |-> p.uuid, result |-> res]
    /\ UNCHANGED <<restVars, wsVars, runVars>>

\* Run.run_pipeline_task_async on a Run that is neither claimed nor queued already.
RunPipelineTaskAsync(r) ==
    /\ runs[r].task_id = None
    /\ ~Queued(r)
    /\ queue' = run_pipeline_task_async(queue, r)
    /\ serial' = (serial /\ ~ProjectBusy(runs[r].project))
    /\ UNCHANGED <<restVars, wsVars, runs, engine, clock, trace>>
    /\ last' = [op |-> "other"]

\* Run.resume_pipeline_task_async on a Run that has failed.
ResumePipelineTaskAsync(r, B) ==
    /\ RunState(runs[r]) = "FAILED"
    /\ engine[r].pc = "idle"
    /\ Resumes < B.resumes
    /\ ~Queued(r)
    /\ queue' = resume_pipeline_task_async(queue, r)
    /\ serial' = (serial /\ ~ProjectBusy(runs[r].project))
    /\ UNCHANGED <<restVars, wsVars, runs, engine, clock, trace>>
    /\ last' = [op |-> "other"]

\* A worker takes a task off the queue and claims its Run: the task id is
\* assigned, the task fields of an earlier execution are reset, and the engine starts
\* from the first step (run) or from the first step not completed (resume).
WorkerClaims(m) ==
    /\ LET r == m.run
           n == engine[r].attempts + 1
       IN /\ engine[r].pc = "idle"
          /\ runs' = [runs EXCEPT ![r].task_id = Some(<<r, n>>),
                                  ![r].task_end_date = None,
                                  ![r].task_exitcode = None,
                                  ![r].task_output = <<>>]
          /\ engine' = [engine EXCEPT ![r] =
                 [pc |-> "running",
                  completed |-> IF m.task = "resume_pipeline_task" THEN @.completed ELSE <<>>,
                  attempts |-> n, exit |-> None]]
          /\ queue' = queue \ {m}
          /\ UNCHANGED <<restVars, wsVars, clock, trace, serial>>
          /\ last' = [op |-> "other"]

\* The running step of a Run leaves a file in the project's tmp/.
RunWritesTmp(r, filename) ==
    /\ engine[r].pc = "running"
    /\ fs[RunDir(r)]["tmp"].exists
    /\ fs' = [fs EXCEPT ![RunDir(r)]["tmp"].files = @ \cup {filename}]
    /\ UNCHANGED <<restVars, projects, runVars>>
    /\ last' = [op |-> "other"]

\* The engine executes the current step of a Run to its end: the step is recorded as
\* completed and the engine moves on to the step it names, or exits with 0 after the
\* step that names none.
StepCompletes(r, B) ==
    /\ engine[r].pc = "running"
    /\ StepsSoFar < B.steps
    /\ CurrentStep(r) # None
    /\ LET step == CurrentStep(r)[1]
           done == Append(engine[r].completed, step)
       IN /\ trace' = [trace EXCEPT ![r] =
                 Append(@, [step |-> step, ok |-> TRUE, attempt |-> engine[r].attempts])]
          /\ runs' = [runs EXCEPT ![r].task_output = Append(@, [step |-> step, event |-> "done"])]
          /\ engine' = [engine EXCEPT ![r].completed = done,
                                      ![r].pc = IF next_step(step) = None THEN "exited" ELSE "running",
                                      ![r].exit = IF next_step(step) = None THEN Some(0) ELSE None]
    /\ UNCHANGED <<restVars, wsVars, queue, clock, serial>>
    /\ last' = [op |-> "other"]

\* The current step raises: the failure goes to the captured output, no further step
\* is started and the engine exits with a non-zero code.
StepRaises(r, B) ==
    /\ engine[r].pc = "running"
    /\ StepsSoFar < B.steps
    /\ CurrentStep(r) # None
    /\ LET step == CurrentStep(r)[1]
       IN /\ trace' = [trace EXCEPT ![r] =
                 Append(@, [step |-> step, ok |-> FALSE, attempt |-> engine[r].attempts])]
          /\ runs' = [runs EXCEPT ![r].task_output = Append(@, [step |-> step, event |-> "failure"])]
          /\ engine' = [engine EXCEPT ![r].pc = "exited", ![r].exit = Some(1)]
    /\ UNCHANGED <<restVars, wsVars, queue, clock, serial>>
    /\ last' = [op |-> "other"]

\* The worker finalizes the Run: exit code and end time are recorded and the
\* project's tmp/ is cleared, whatever the outcome.
Finalize(r) ==
    /\ engine[r].pc = "exited"
    /\ runs' = [runs EXCEPT ![r].task_exitcode = engine[r].exit,
                            ![r].task_end_date = Some(clock)]
    /\ engine' = [engine EXCEPT ![r].pc = "idle"]
    /\ fs' = clear_tmp_directory(fs, RunDir(r))
    /\ UNCHANGED <<restVars, projects, queue, clock, trace, serial>>
    /\ last' = [op |-> "finalize", run |-> r, tmp_before |-> TmpState(fs, RunDir(r))]

RunsCommon(B) ==
    \/ Tick(B)
    \/ \E p \in projects, pl \in Pipelines : AddPipeline(p, pl, B)
    \/ \E p \in projects : GetNextRun(p)
    \/ \E r \in DOMAIN runs : RunPipelineTaskAsync(r)
    \/ \E r \in DOMAIN runs : ResumePipelineTaskAsync(r, B)
    \/ \E m \in queue : WorkerClaims(m)
    \/ \E r \in DOMAIN runs, f \in Files : RunWritesTmp(r, f)
    \/ \E r \in DOMAIN runs : StepCompletes(r, B)
    \/ \E r \in DOMAIN runs : StepRaises(r, B)
    \/ \E r \in DOMAIN runs : Finalize(r)

NextRuns == RunsCommon(DispatchBounds)

SpecRuns == InitRuns /\ [][NextRuns]_vars

NextPipeline == RunsCommon(PipelineBounds)

SpecPipeline == InitRuns /\ [][NextPipeline]_vars

(***************************************************************************)
(* C1.  get_next_run gives the Run of the project with the earliest        *)
(* creation time among those with no task id: never a Run with a task id,  *)
(* never a Run of another project, and nothing exactly when the project    *)
(* has no Run without a task id.                                           *)
(***************************************************************************)
Unclaimed(pk) == {r \in DOMAIN runs : runs[r].project = pk /\ runs[r].task_id = None}

C1_GetNextRunEarliestUnclaimed ==
    last.op = "get_next_run"
    => /\ (last.result = None) <=> (Unclaimed(last.project) = {})
       /\ last.result # None
          => /\ last.result[1] \in DOMAIN runs
             /\ runs[last.result[1]].project = last.project
             /\ runs[last.result[1]].task_id = None
             /\ \A o \in Unclaimed(last.project) :
                    runs[last.result[1]].created_date <= runs[o].created_date

\* The Run returned is the later of two Runs of the project, the earlier one claimed.
C1_Witness ==
    /\ last.op = "get_next_run"
    /\ last.result = Some(2)
    /\ runs[1].project = last.project
    /\ runs[1].task_id # None
    /\ runs[1].created_date < runs[2].created_date

(***************************************************************************)
(* C4.  As claimed: in every reachable state no project has two Runs that  *)
(* both have a task id and no end time.                                    *)
(***************************************************************************)
C4_AtMostOneActiveRun ==
    \A p \in projects : Cardinality(ActiveRuns(p.uuid)) <= 1

(***************************************************************************)
(* C4, amended.  No project has two Runs that both have a task id and no   *)
(* end time as long as every enqueue (run or resume) was made while the    *)
(* project had no Run waiting in the queue or claimed and not ended.       *)
(***************************************************************************)
C4_AtMostOneActiveRunWhenSerial ==
    serial => \A p \in projects : Cardinality(ActiveRuns(p.uuid)) <= 1

\* A second Run of a project is claimed after the first one has ended.
C4_Witness ==
    /\ serial
    /\ \E p \in projects : \E r, o \in DOMAIN runs :
           /\ ActiveRuns(p.uuid) = {r}
           /\ o # r
           /\ runs[o].project = p.uuid
           /\ runs[o].task_end_date # None

(***************************************************************************)
(* C3.  When a step of a pipeline raises, no further step is executed in   *)
(* that execution, and the Run ends FAILED, never SUCCEEDED: the end time  *)
(* is set, the exit code is non-zero and the failure is in the captured    *)
(* output.                                                                 *)
(***************************************************************************)
C3_FailureHaltsPipeline ==
    \A r \in DOMAIN runs : \A i \in DOMAIN trace[r] :
        ~trace[r][i].ok
        => /\ \A j \in DOMAIN trace[r] :
                  j > i => trace[r][j].attempt > trace[r][i].attempt
           /\ trace[r][i].attempt = engine[r].attempts
              => /\ RunState(runs[r]) # "SUCCEEDED"
                 /\ \E k \in DOMAIN runs[r].task_output :
                        runs[r].task_output[k] = [step |-> trace[r][i].step, event |-> "failure"]
                 /\ engine[r].pc = "idle"
                    => /\ RunState(runs[r]) = "FAILED"
                       /\ runs[r].task_end_date # None
                       /\ runs[r].task_exitcode \notin {None, Some(0)}

\* The second of the three steps raised and the Run is finalized.
C3_Witness ==
    \E r \in DOMAIN runs :
        /\ Len(trace[r]) = 2
        /\ trace[r][1] = [step |-> "start", ok |-> TRUE, attempt |-> 1]
        /\ trace[r][2] = [step |-> "build_inventory_from_scan", ok |-> FALSE, attempt |-> 1]
        /\ engine[r].pc = "idle"
        /\ RunState(runs[r]) = "FAILED"

(***************************************************************************)
(* C8.  At the moment a Run reaches a terminal state, SUCCEEDED or FAILED, *)
(* the tmp/ directory of its project exists and is empty.                  *)
(***************************************************************************)
C8_TmpClearedOnTerminal ==
    [][\A r \in DOMAIN runs :
          (RunState(runs[r]) = "RUNNING" /\ RunState(runs'[r]) \in {"SUCCEEDED", "FAILED"})
          => TmpState(fs', RunDir(r)) = "empty"]_vars

\* A failed Run is finalized with files left in tmp/.
C8_Witness ==
    /\ last.op = "finalize"
    /\ last.tmp_before = "nonempty"
    /\ RunState(runs[last.run]) = "FAILED"
    /\ TmpState(fs, RunDir(last.run)) = "empty"

(***************************************************************************)
(* C9.  The steps of a Run are executed in the order of their declaration  *)
(* (start, build_inventory_from_scan, end), and over the first execution   *)
(* and every resume no completed step is executed again: each execution    *)
(* starts at the first step not yet completed.                             *)
(***************************************************************************)
OkBefore(t, i) == Cardinality({j \in DOMAIN t : j < i /\ t[j].ok})

C9_StepsInOrderNoRerun ==
    \A r \in DOMAIN runs : \A i \in DOMAIN trace[r] :
        /\ OkBefore(trace[r], i) < Len(DeclaredSteps)
        /\ trace[r][i].step = DeclaredSteps[OkBefore(trace[r], i) + 1]

\* A Run that failed in its second step, was resumed there and ran to its end.
C9_Witness ==
    \E r \in DOMAIN runs :
        /\ Len(trace[r]) = 4
        /\ trace[r][2] = [step |-> "build_inventory_from_scan", ok |-> FALSE, attempt |-> 1]
        /\ trace[r][3] = [step |-> "build_inventory_from_scan", ok |-> TRUE, attempt |-> 2]
        /\ trace[r][4] = [step |-> "end", ok |-> TRUE, attempt |-> 2]
        /\ RunState(runs[r]) = "SUCCEEDED"

(***************************************************************************)
(* Run.get_run_id: the run id in the captured task output.                 *)
(***************************************************************************)
MaxPieces == 3

\* What a task may write to its output, piece by piece.
Pieces ==
    { <<"r", "u", "n", "-", "i", "d", " ">>,
      <<"r", "u", "n", "-", "i", "d">>,
      <<"4">>, <<"8", "2">>, <<" ">>, <<"x">>, <<"\n">> }

Digits == {"0", "1", "2", "3", "4", "5", "6", "7", "8", "9"}

Whitespace == {" ", "\n", "\t"}

\* The literal part of the pattern r"run-id [0-9]+".
RunIdToken == <<"r", "u", "n", "-", "i", "d", " ">>

RECURSIVE Flatten(_)
Flatten(ps) == IF ps = <<>> THEN <<>> ELSE Head(ps) \o Flatten(Tail(ps))

\* The pattern matches the text from position i on.
MatchesAt(t, i) ==
    /\ i + Len(RunIdToken) <= Len(t)
    /\ SubSeq(t, i, i + Len(RunIdToken) - 1) = RunIdToken
    /\ t[i + Len(RunIdToken)] \in Digits

\* The positions at which the pattern matches.
MatchStarts(t) == {i \in 1..Len(t) : MatchesAt(t, i)}

Min(S) == CHOOSE x \in S : \A y \in S : x <= y

Max(S) == CHOOSE x \in S : \A y \in S : x >= y

\* run_id_re.search(text).group(): the leftmost match, its digits taken greedily.
search_group(t) ==
    LET i == Min(MatchStarts(t))
        d == i + Len(RunIdToken)
        e == Max({k \in d..Len(t) : \A j \in d..k : t[j] \in Digits})
    IN SubSeq(t, i, e)

\* str.split()[-1] of a text that does not end in whitespace.
split_last(t) ==
    LET ws == {k \in 1..Len(t) : t[k] \in Whitespace}
    IN IF ws = {} THEN t ELSE SubSeq(t, Max(ws) + 1, Len(t))

\* Run.get_run_id: what the caller gets, a value or an exception.  An output that is
\* not empty and holds no match makes search() give None, and None has no group().
get_run_id(t) ==
    IF t = <<>> THEN [raised |-> FALSE, result |-> None]
    ELSE IF MatchStarts(t) = {} THEN [raised |-> TRUE, result |-> None]
    ELSE IF search_group(t) # <<>>
         THEN [raised |-> FALSE, result |-> Some(split_last(search_group(t)))]
         ELSE [raised |-> FALSE, result |-> None]

\* The task writes a piece of output.
CaptureOutput(piece) ==
    /\ Len(output) < MaxPieces
    /\ output' = Append(output, piece)
    /\ UNCHANGED <<wsVars, runVars, storeVars>>
    /\ last' = [op |-> "capture_output"]

GetRunId ==
    /\ last' = [op |-> "get_run_id"] @@ get_run_id(Flatten(output))
    /\ UNCHANGED <<wsVars, runVars, restVars>>

NextRunId ==
    \/ \E piece \in Pieces : CaptureOutput(piece)
    \/ GetRunId

SpecRunId == InitRuns /\ [][NextRunId]_vars

(***************************************************************************)
(* C7.  get_run_id gives the decimal digits that follow the first          *)
(* occurrence of 'run-id ' with digits behind it in the task output, and   *)
(* gives nothing, raising no error, when the output holds no such          *)
(* occurrence, be the output empty or not.                                 *)
(***************************************************************************)
\* The digits from position d on.
DigitsFrom(t, d) ==
    SubSeq(t, d, Max({k \in d..Len(t) : \A j \in d..k : t[j] \in Digits}))

C7_GetRunIdNeverRaises ==
    last.op = "get_run_id"
    => LET t == Flatten(output)
       IN /\ ~last.raised
          /\ MatchStarts(t) = {} => last.result = None
          /\ MatchStarts(t) # {}
             => last.result = Some(DigitsFrom(t, Min(MatchStarts(t)) + Len(RunIdToken)))

(***************************************************************************)
(* The inventory: CodebaseResource, DiscoveredPackage, ProjectError and    *)
(* SaveProjectErrorMixin.                                                  *)
(***************************************************************************)
MaxResources == 2

MaxPackages == 1

MaxErrors == 2

Paths == {"a.c", "b.c"}

LicenseValues == {<<>>, <<"mit">>, <<"gpl">>}

CopyrightValues == {<<>>, <<"c1">>}

\* The keys a scan result may carry: two scan fields and one that is no field.
ScanKeys == {"licenses", "copyrights", "flavor"}

ScanValues(k) ==
    CASE k = "licenses" -> LicenseValues
      [] k = "copyrights" -> CopyrightValues
      [] OTHER -> {<<"sweet">>}

ScanResults == UNION {[ks -> UNION {ScanValues(k) : k \in ks}] : ks \in SUBSET ScanKeys}

ScanResultsTyped == {m \in ScanResults : \A k \in DOMAIN m : m[k] \in ScanValues(k)}

\* The names of the fields of CodebaseResource that models.py declares.
CodebaseResourceFields ==
    {"project", "copyrights", "holders", "authors", "licenses", "license_expressions",
     "emails", "urls", "rootfs_path", "status", "type", "extra_data", "name",
     "extension", "programming_language", "mime_type", "file_type", "path"}

\* The names of the fields of DiscoveredPackage.
DiscoveredPackageFields ==
    {"project", "codebase_resources", "missing_resources", "modified_resources",
     "keywords", "source_packages", "name", "qualifiers"}

\* The truth value Python gives a value: the empty ones are false.
Truthy(value) == value # <<>>

\* A merge that takes every value of a recognized field, empty or not.
set_scan_results_takes_empty(attrs, scan_results) ==
    LET taken == {k \in DOMAIN scan_results : k \in CodebaseResourceFields}
    IN [a \in DOMAIN attrs \cup taken |->
           IF a \in taken THEN scan_results[a] ELSE attrs[a]]

\* The loop of CodebaseResource.set_scan_results over the attributes of the instance.
set_scan_results(attrs, scan_results) ==
    LET taken == {k \in DOMAIN scan_results :
                      Truthy(scan_results[k]) /\ k \in CodebaseResourceFields}
    IN [a \in DOMAIN attrs \cup taken |->
           IF a \in taken THEN scan_results[a] ELSE attrs[a]]

\* A constraint on the path alone, whatever the project.
resource_unique_violated_path_only(rows, project_pk, path) ==
    \E x \in rows : x.path = path

\* unique_together = (("project", "path"),): the row cannot be inserted.
resource_unique_violated(rows, project_pk, path) ==
    \E x \in rows : x.project = project_pk /\ x.path = path

\* ProjectError.objects.create(project=..., model=..., ...)
project_error_create(errs, project_pk, model, message) ==
    Append(errs, [project |-> project_pk, model |-> model, message |-> message])

FreshId(rows) == IF rows = {} THEN 1 ELSE Max({x.id : x \in rows}) + 1

DefaultAttrs == [a \in {"licenses", "copyrights"} |-> <<>>]

Row(id, project_pk, path, attrs) ==
    [id |-> id, project |-> project_pk, path |-> path, attrs |-> attrs]

\* normalize_qualifiers(qualifiers, encode=True): keys in lower case, pairs without a
\* value dropped, pairs in the order of their keys.
Lower(k) == IF k = "Classifier" THEN "classifier" ELSE k

QualifierKeyOrder == <<"arch", "classifier">>

normalize_qualifiers(q) ==
    LET low == [i \in DOMAIN q |-> <<Lower(q[i][1]), q[i][2]>>]
        pick(k) == SelectSeq(low, LAMBDA pr : pr[1] = k /\ pr[2] # <<>>)
    IN pick(QualifierKeyOrder[1]) \o pick(QualifierKeyOrder[2])

\* The package data of the model.
PackageDatas ==
    { [name |-> <<"zlib">>],
      [name |-> <<"zlib">>, qualifiers |-> << <<"Classifier", <<"sources">> >>, <<"arch", <<>> >> >>],
      [name |-> <<>>, qualifiers |-> <<>>, flavor |-> <<"sweet">>] }

\* DiscoveredPackage.create_from_data up to the creation: the qualifiers normalized,
\* then the fields that are recognized and not empty.
cleaned_package_data(package_data) ==
    LET data == IF "qualifiers" \in DOMAIN package_data /\ Truthy(package_data["qualifiers"])
                THEN [package_data EXCEPT !["qualifiers"] = normalize_qualifiers(@)]
                ELSE package_data
        kept == {k \in DOMAIN data : k \in DiscoveredPackageFields /\ Truthy(data[k])}
    IN [k \in kept |-> data[k]]

\* Two projects exist; the inventory is empty.
InitInventory == InitRuns

\* CodebaseResource(project=..., path=...).save() on a new instance, through
\* SaveProjectErrorMixin.save: the insert fails on a (project, path) already there or
\* for another reason (fault), and the failure becomes a ProjectError.
CreateResource(p, path, fault) ==
    LET failed == fault \/ resource_unique_violated(resources, p.uuid, path)
    IN /\ ~failed => Cardinality(resources) < MaxResources
       /\ failed => Len(errors) < MaxErrors
       /\ resources' = IF failed THEN resources
                       ELSE resources \cup {Row(FreshId(resources), p.uuid, path, DefaultAttrs)}
       /\ errors' = IF failed
                    THEN project_error_create(errors, p.uuid, "CodebaseResource",
                                              IF fault THEN "fault" ELSE "unique")
                    ELSE errors
       /\ UNCHANGED <<wsVars, runVars, packages, links, obj, output>>
       /\ last' = [op |-> "save_resource", project |-> p.uuid, model |-> "CodebaseResource",
                   path |-> path, fault |-> fault,
                   save_failed |-> failed, raised |-> FALSE,
                   errors_before |-> Len(errors), rows_before |-> Cardinality(resources)]

\* DiscoveredPackage.create_from_data: objects.create saves through
\* SaveProjectErrorMixin.save.
CreateFromData(p, package_data, fault) ==
    /\ Cardinality(packages) < MaxPackages
    /\ fault => Len(errors) < MaxErrors
    /\ packages' = IF fault THEN packages
                   ELSE packages \cup {[id |-> FreshId(packages), project |-> p.uuid,
                                        data |-> cleaned_package_data(package_data)]}
    /\ errors' = IF fault
                 THEN project_error_create(errors, p.uuid, "DiscoveredPackage", "fault")
                 ELSE errors
    /\ UNCHANGED <<wsVars, runVars, resources, links, obj, output>>
    /\ last' = [op |-> "save_package", project |-> p.uuid, model |-> "DiscoveredPackage",
                save_failed |-> fault, raised |-> FALSE,
                errors_before |-> Len(errors), rows_before |-> Cardinality(packages)]

\* DiscoveredPackage.create_for_resource: create_from_data for the project of the
\* resource, then codebase_resource.discovered_packages.add(created_package).  The
\* package whose save failed is in no table, and add() of it raises.
CreateForResource(package_data, res, fault) ==
    /\ Cardinality(packages) < MaxPackages
    /\ fault => Len(errors) < MaxErrors
    /\ packages' = IF fault THEN packages
                   ELSE packages \cup {[id |-> FreshId(packages), project |-> res.project,
                                        data |-> cleaned_package_data(package_data)]}
    /\ errors' = IF fault
                 THEN project_error_create(errors, res.project, "DiscoveredPackage", "fault")
                 ELSE errors
    /\ links' = IF fault THEN links ELSE links \cup {<<res.id, FreshId(packages)>>}
    /\ UNCHANGED <<wsVars, runVars, resources, obj, output>>
    /\ last' = [op |-> "create_for_resource", project |-> res.project,
                model |-> "DiscoveredPackage",
                save_failed |-> fault, raised |-> fault,
                errors_before |-> Len(errors), rows_before |-> Cardinality(packages)]

NextInventory ==
    \/ \E p \in projects, path \in Paths, fault \in BOOLEAN : CreateResource(p, path, fault)
    \/ \E p \in projects, d \in PackageDatas, fault \in BOOLEAN : CreateFromData(p, d, fault)
    \/ \E d \in PackageDatas, res \in resources, fault \in BOOLEAN : CreateForResource(d, res, fault)

SpecInventory == InitInventory /\ [][NextInventory]_vars

(***************************************************************************)
(* C6.  When persisting a CodebaseResource or a DiscoveredPackage fails,   *)
(* no exception reaches the caller, exactly one ProjectError is created,   *)
(* under the project of the entity and with the name of its class, and the *)
(* entity is not added to the inventory.                                   *)
(***************************************************************************)
C6_SaveFailureNeverPropagates ==
    (last.op \in {"save_resource", "save_package", "create_for_resource"} /\ last.save_failed)
    => /\ ~last.raised
       /\ Len(errors) = last.errors_before + 1
       /\ errors[Len(errors)].project = last.project
       /\ errors[Len(errors)].model = last.model
       /\ Cardinality(IF last.model = "CodebaseResource" THEN resources ELSE packages)
              = last.rows_before

(***************************************************************************)
(* C11.  No two persisted CodebaseResources share one (project, path)      *)
(* pair.  Persisting a resource whose (project, path) is already used adds *)
(* no resource, raises nothing to the caller and is recorded as one        *)
(* ProjectError of that project; a (project, path) pair that is not used   *)
(* is accepted when the write does not fail, also when another project     *)
(* holds the same path.                                                    *)
(***************************************************************************)
\* The resources of the inventory alone: every write of a CodebaseResource row.
NextResources ==
    \E p \in projects, path \in Paths, fault \in BOOLEAN : CreateResource(p, path, fault)

SpecResources == InitInventory /\ [][NextResources]_vars

UniquePerProjectPath ==
    \A x, y \in resources : (x.project = y.project /\ x.path = y.path) => x = y

DuplicateAttempt ==
    LET used == \E x \in resources : x.project = last'.project /\ x.path = last'.path
    IN last'.op = "save_resource" =>
         /\ ~last'.raised
         /\ used => /\ resources' = resources
                     /\ Len(errors') = Len(errors) + 1
                     /\ errors'[Len(errors')].project = last'.project
                     /\ errors'[Len(errors')].model = "CodebaseResource"
                     /\ SubSeq(errors', 1, Len(errors)) = errors
         /\ (~used /\ ~last'.fault) =>
                /\ Cardinality(resources') = Cardinality(resources) + 1
                /\ resources \subseteq resources'
                /\ \E x \in resources' \ resources :
                       x.project = last'.project /\ x.path = last'.path

C11_UniqueProjectPath == []UniquePerProjectPath /\ [][DuplicateAttempt]_vars

\* A path held by two projects, and a second resource of one of them with that path
\* refused for the constraint.
C11_Witness ==
    /\ \E x, y \in resources : x.path = y.path /\ x.project # y.project
    /\ last.op = "save_resource" /\ ~last.fault /\ last.save_failed
    /\ \E x \in resources : x.project = last.project /\ x.path = last.path
    /\ last.rows_before = Cardinality(resources)
    /\ errors # <<>> /\ errors[Len(errors)].message = "unique"

(***************************************************************************)
(* Scan results: CodebaseResource.set_scan_results on an instance loaded   *)
(* from the table.                                                         *)
(***************************************************************************)
\* CodebaseResource.objects.get(...): an instance of a row.
LoadResource(res) ==
    /\ obj' = Some([pk |-> res.id, project |-> res.project, path |-> res.path,
                    attrs |-> res.attrs])
    /\ UNCHANGED <<wsVars, runVars, resources, packages, links, errors, output>>
    /\ last' = [op |-> "load"]

\* CodebaseResource.set_scan_results(scan_results, save): the attributes of the
\* instance are merged; with save the instance is written through
\* SaveProjectErrorMixin.save, an update of its row that fails only by a fault.
SetScanResults(scan_results, save, fault) ==
    /\ obj # None
    /\ fault => save /\ Len(errors) < MaxErrors
    /\ LET o == obj[1]
           merged == set_scan_results(o.attrs, scan_results)
       IN /\ obj' = Some([o EXCEPT !.attrs = merged])
          /\ resources' =
                 IF save /\ ~fault
                 THEN {IF x.id = o.pk
                       THEN [x EXCEPT !.attrs = [a \in DOMAIN x.attrs |-> merged[a]]]
                       ELSE x : x \in resources}
                 ELSE resources
          /\ errors' = IF fault
                       THEN project_error_create(errors, o.project, "CodebaseResource", "fault")
                       ELSE errors
          /\ last' = [op |-> "set_scan_results", scan_results |-> scan_results,
                      before |-> o.attrs, save |-> save, raised |-> FALSE]
    /\ UNCHANGED <<wsVars, runVars, packages, links, output>>

\* Two projects exist and one resource of the first has been created.
InitScan ==
    /\ projects = {[uuid |-> <<"1a", "x">>, name |-> "acme", work_directory |-> <<"acme", "1a">>],
                   [uuid |-> <<"2b", "x">>, name |-> "beta", work_directory |-> <<"beta", "2b">>]}
    /\ fs = setup_work_directory(setup_work_directory(<<>>, <<"acme", "1a">>), <<"beta", "2b">>)
    /\ RunsIdle
    /\ resources = {Row(1, <<"1a", "x">>, "a.c", DefaultAttrs)}
    /\ packages = {}
    /\ links = {}
    /\ errors = <<>>
    /\ obj = None
    /\ output = <<>>
    /\ last = [op |-> "save_resource", project |-> <<"1a", "x">>, model |-> "CodebaseResource",
               path |-> "a.c", fault |-> FALSE,
               save_failed |-> FALSE, raised |-> FALSE, errors_before |-> 0, rows_before |-> 0]

NextScan ==
    \/ \E res \in resources : LoadResource(res)
    \/ \E m \in ScanResultsTyped, save \in BOOLEAN, fault \in BOOLEAN :
           SetScanResults(m, save, fault)

SpecScan == InitScan /\ [][NextScan]_vars

(***************************************************************************)
(* C5.  set_scan_results sets exactly the attributes named by a recognized *)
(* field whose value in the mapping is not empty, each to that value;      *)
(* every attribute that is absent from the mapping, present with an empty  *)
(* value or named by an unrecognized key is as it was.  {"licenses": []}   *)
(* does not overwrite a non-empty licenses value, {"licenses": [mit]}      *)
(* does.                                                                   *)
(***************************************************************************)
C5_SetScanResultsFrame ==
    last.op = "set_scan_results"
    => LET now == obj[1].attrs
           was == last.before
           m == last.scan_results
       IN /\ DOMAIN now = DOMAIN was
          /\ \A f \in DOMAIN now :
                 now[f] = IF f \in DOMAIN m /\ f \in CodebaseResourceFields /\ m[f] # <<>>
                          THEN m[f] ELSE was[f]
          /\ ("licenses" \in DOMAIN m /\ m["licenses"] = <<>>)
                 => now["licenses"] = was["licenses"]
          /\ ("licenses" \in DOMAIN m /\ m["licenses"] = <<"mit">>)
                 => now["licenses"] = <<"mit">>

\* A value overwritten, an empty value skipped and an unrecognized key ignored at once.
C5_Witness ==
    /\ last.op = "set_scan_results"
    /\ last.before = [licenses |-> <<"gpl">>, copyrights |-> <<"c1">>]
    /\ last.scan_results = [licenses |-> <<"mit">>, copyrights |-> <<>>, flavor |-> <<"sweet">>]
    /\ obj[1].attrs = [licenses |-> <<"mit">>, copyrights |-> <<"c1">>]

====
